---- MODULE Spec2Model ----
(***************************************************************************)
(* Model of api/views.py: the studentsView request handler, bound to GET   *)
(* and POST by api_view, over the Student table and StudentSerializer.     *)
(* Several requests are in flight at once; the relational store is the     *)
(* only state they share.                                                  *)
(***************************************************************************)
EXTENDS Integers, Sequences, FiniteSets, TLC

\* ---------------------------------------------------------------- bounds
NumProcs == 2
MaxRequests == 3

Procs == 1..NumProcs

\* ------------------------------------------------------- HTTP vocabulary
HTTP_200_OK == 200
HTTP_201_CREATED == 201
HTTP_400_BAD_REQUEST == 400
HTTP_405_METHOD_NOT_ALLOWED == 405
HTTP_500_INTERNAL_SERVER_ERROR == 500

Methods == {"GET", "POST", "PUT", "OPTIONS"}

\* request.data: a key/value object; each value carries its JSON type
Names == {"Ada", "Bob"}
StrValues == {[type |-> "str", val |-> n] : n \in Names}
BadValues == {[type |-> "list", val |-> "Ada"]}
IdValues == {[type |-> "int", val |-> "7"]}
NameOnly == {[k \in {"name"} |-> v] : v \in StrValues \cup BadValues}
IdOnly == {[k \in {"id"} |-> v] : v \in IdValues}
NameAndId == {[k \in {"name", "id"} |-> IF k = "name" THEN v ELSE w] :
                 v \in {[type |-> "str", val |-> "Ada"]}, w \in IdValues}
EmptyData == [k \in {} |-> [type |-> "str", val |-> "Ada"]]
Bodies == {EmptyData} \cup NameOnly \cup IdOnly \cup NameAndId

\* ----------------------------------------------------- Student, serializer
\* the writable fields of Student (the identifier is generated, read-only)
StudentFields == {"name"}

FieldError(data, f) ==
    IF f \notin DOMAIN data THEN <<"This field is required.">>
    ELSE IF data[f].type # "str" THEN <<"Not a valid string.">>
    ELSE <<>>

\* serializer.errors after is_valid(): one entry per field that failed
errors(data) ==
    [f \in {g \in StudentFields : FieldError(data, g) # <<>>} |-> FieldError(data, f)]

\* serializer.is_valid(): returns a boolean, does not raise
is_valid(data) == DOMAIN errors(data) = {}

\* serializer.validated_data: the writable fields only, as native values
validated_data(data) ==
    [name |-> IF "name" \in DOMAIN data THEN data["name"].val ELSE ""]

\* a table row is <<id, name>>; the wire object is keyed by field name
serialize(row) == [id |-> row[1], name |-> row[2]]

serializeMany(rows) == [i \in 1..Len(rows) |-> serialize(rows[i])]

\* ------------------------------------------------------------------ state
VARIABLES
    store,          \* the Student table, rows in insertion order
    nextId,         \* the table's auto-increment counter
    pc,             \* per request: its state in the handler's state machine
    req,            \* per request: method and request.data
    resp,           \* per request: the Response
    trace,          \* per request: the states it has passed through
    issued,         \* number of requests received so far
    acked,          \* wire objects returned by 201 responses so far
    ackedAtIssue    \* per request: acked when the request was received

vars == <<store, nextId, pc, req, resp, trace, issued, acked, ackedAtIssue>>

NoReq == [method |-> "GET", data |-> EmptyData]
NoObj == [id |-> 0, name |-> ""]
NoErrors == [f \in {} |-> <<>>]
NoResp == [status |-> 0, list |-> <<>>, obj |-> NoObj, errors |-> NoErrors,
           fromHandler |-> FALSE]

Response(st, l, o, e, h) ==
    [status |-> st, list |-> l, obj |-> o, errors |-> e, fromHandler |-> h]

Terminal == {"RespondedOK", "RespondedCreated", "RespondedBadRequest",
             "MethodNotAllowed", "RespondedOptions", "ReturnedNone", "Failed"}

Init ==
    /\ store = <<>>
    /\ nextId = 1
    /\ pc = [p \in Procs |-> "Idle"]
    /\ req = [p \in Procs |-> NoReq]
    /\ resp = [p \in Procs |-> NoResp]
    /\ trace = [p \in Procs |-> <<>>]
    /\ issued = 0
    /\ acked = {}
    /\ ackedAtIssue = [p \in Procs |-> {}]

Goto(p, s) ==
    /\ pc' = [pc EXCEPT ![p] = s]
    /\ trace' = [trace EXCEPT ![p] = Append(@, s)]

\* a request arrives at the route
Receive(p) ==
    /\ pc[p] = "Idle"
    /\ issued < MaxRequests
    /\ \E m \in Methods, d \in Bodies :
          /\ m # "POST" => d = EmptyData
          /\ req' = [req EXCEPT ![p] = [method |-> m, data |-> d]]
    /\ issued' = issued + 1
    /\ ackedAtIssue' = [ackedAtIssue EXCEPT ![p] = acked]
    /\ Goto(p, "ReceivedRequest")
    /\ UNCHANGED <<store, nextId, resp, acked>>

\* variant: the decorator binds the handler to every method
api_viewAnyMethod(m) == m \in Methods

\* @api_view(['GET','POST']): the methods bound to the handler
api_view(m) == m \in {"GET", "POST"}

\* variant: the two branches of the handler are swapped
studentsViewSwapped(m) ==
    IF m = "GET" THEN "Validating"
    ELSE IF m = "POST" THEN "Listing"
    ELSE "ReturnedNone"

\* the handler's method dispatch: if GET / elif POST / (no else)
studentsView(m) ==
    IF m = "GET" THEN "Listing"
    ELSE IF m = "POST" THEN "Validating"
    ELSE "ReturnedNone"

Dispatch(p) ==
    /\ pc[p] = "ReceivedRequest"
    /\ LET m == req[p].method IN
       IF api_view(m)
       THEN /\ Goto(p, studentsView(m))
            /\ resp' = [resp EXCEPT ![p] =
                  IF studentsView(m) = "ReturnedNone"
                  THEN Response(HTTP_500_INTERNAL_SERVER_ERROR, <<>>, NoObj, NoErrors, TRUE)
                  ELSE @]
       ELSE IF m = "OPTIONS"
       THEN /\ Goto(p, "RespondedOptions")
            /\ resp' = [resp EXCEPT ![p] =
                  Response(HTTP_200_OK, <<>>, NoObj, NoErrors, FALSE)]
       ELSE /\ Goto(p, "MethodNotAllowed")
            /\ resp' = [resp EXCEPT ![p] =
                  Response(HTTP_405_METHOD_NOT_ALLOWED, <<>>, NoObj, NoErrors, FALSE)]
    /\ UNCHANGED <<store, nextId, req, issued, acked, ackedAtIssue>>

\* variant: the GET branch serializes a single record instead of many
GetRespondFirst(p) ==
    /\ pc[p] = "Listing"
    /\ resp' = [resp EXCEPT ![p] =
          Response(HTTP_200_OK,
                   IF store = <<>> THEN <<>> ELSE <<serialize(store[1])>>,
                   NoObj, NoErrors, TRUE)]
    /\ Goto(p, "RespondedOK")
    /\ UNCHANGED <<store, nextId, req, issued, acked, ackedAtIssue>>

\* variant: the GET branch consumes the rows it lists
GetRespondConsume(p) ==
    /\ pc[p] = "Listing"
    /\ resp' = [resp EXCEPT ![p] =
          Response(HTTP_200_OK, serializeMany(store), NoObj, NoErrors, TRUE)]
    /\ store' = <<>>
    /\ Goto(p, "RespondedOK")
    /\ UNCHANGED <<nextId, req, issued, acked, ackedAtIssue>>

\* GET: Student.objects.all() is evaluated when serializer.data is read
GetRespond(p) ==
    /\ pc[p] = "Listing"
    /\ resp' = [resp EXCEPT ![p] =
          Response(HTTP_200_OK, serializeMany(store), NoObj, NoErrors, TRUE)]
    /\ Goto(p, "RespondedOK")
    /\ UNCHANGED <<store, nextId, req, issued, acked, ackedAtIssue>>

\* variant: the result of is_valid() is ignored and the data is saved
PostValidateIgnored(p) ==
    /\ pc[p] = "Validating"
    /\ Goto(p, "Persisting")
    /\ UNCHANGED <<store, nextId, req, resp, issued, acked, ackedAtIssue>>

\* variant: validation raises on a value of the wrong type
PostValidateRaises(p) ==
    /\ pc[p] = "Validating"
    /\ IF is_valid(req[p].data)
       THEN /\ Goto(p, "Persisting")
            /\ UNCHANGED resp
       ELSE IF \E f \in DOMAIN req[p].data : req[p].data[f].type = "list"
       THEN /\ Goto(p, "Failed")
            /\ resp' = [resp EXCEPT ![p] =
                  Response(HTTP_500_INTERNAL_SERVER_ERROR, <<>>, NoObj, NoErrors, FALSE)]
       ELSE /\ Goto(p, "RespondedBadRequest")
            /\ resp' = [resp EXCEPT ![p] =
                  Response(HTTP_400_BAD_REQUEST, <<>>, NoObj, errors(req[p].data), TRUE)]
    /\ UNCHANGED <<store, nextId, req, issued, acked, ackedAtIssue>>

\* POST: serializer.is_valid(); on failure the 400 with serializer.errors
PostValidate(p) ==
    /\ pc[p] = "Validating"
    /\ IF is_valid(req[p].data)
       THEN /\ Goto(p, "Persisting")
            /\ UNCHANGED resp
       ELSE /\ Goto(p, "RespondedBadRequest")
            /\ resp' = [resp EXCEPT ![p] =
                  Response(HTTP_400_BAD_REQUEST, <<>>, NoObj, errors(req[p].data), TRUE)]
    /\ UNCHANGED <<store, nextId, req, issued, acked, ackedAtIssue>>

\* variant: the 201 is sent but save() is never called
PostSaveNoInsert(p) ==
    /\ pc[p] = "Persisting"
    /\ LET row == <<nextId, validated_data(req[p].data).name>> IN
          /\ store' = store
          /\ nextId' = nextId + 1
          /\ resp' = [resp EXCEPT ![p] =
                Response(HTTP_201_CREATED, <<>>, serialize(row), NoErrors, TRUE)]
          /\ acked' = acked \cup {serialize(row)}
    /\ Goto(p, "RespondedCreated")
    /\ UNCHANGED <<req, issued, ackedAtIssue>>

\* variant: the identifier is not advanced by the insert
PostSaveSameId(p) ==
    /\ pc[p] = "Persisting"
    /\ LET row == <<nextId, validated_data(req[p].data).name>> IN
          /\ store' = Append(store, row)
          /\ nextId' = nextId
          /\ resp' = [resp EXCEPT ![p] =
                Response(HTTP_201_CREATED, <<>>, serialize(row), NoErrors, TRUE)]
          /\ acked' = acked \cup {serialize(row)}
    /\ Goto(p, "RespondedCreated")
    /\ UNCHANGED <<req, issued, ackedAtIssue>>

\* variant: save() updates the latest row instead of inserting
PostSaveOverwrite(p) ==
    /\ pc[p] = "Persisting"
    /\ LET row == <<nextId, validated_data(req[p].data).name>> IN
          /\ store' = IF store = <<>> THEN <<row>> ELSE [store EXCEPT ![Len(store)] = row]
          /\ nextId' = nextId + 1
          /\ resp' = [resp EXCEPT ![p] =
                Response(HTTP_201_CREATED, <<>>, serialize(row), NoErrors, TRUE)]
          /\ acked' = acked \cup {serialize(row)}
    /\ Goto(p, "RespondedCreated")
    /\ UNCHANGED <<req, issued, ackedAtIssue>>

\* variant: the row is inserted with its fields still empty
PostSavePartial(p) ==
    /\ pc[p] = "Persisting"
    /\ LET row == <<nextId, validated_data(req[p].data).name>> IN
          /\ store' = Append(store, <<nextId, "">>)
          /\ nextId' = nextId + 1
          /\ resp' = [resp EXCEPT ![p] =
                Response(HTTP_201_CREATED, <<>>, serialize(row), NoErrors, TRUE)]
          /\ acked' = acked \cup {serialize(row)}
    /\ Goto(p, "RespondedCreated")
    /\ UNCHANGED <<req, issued, ackedAtIssue>>

\* POST: serializer.save() inserts one row; the 201 carries serializer.data
PostSave(p) ==
    /\ pc[p] = "Persisting"
    /\ LET row == <<nextId, validated_data(req[p].data).name>> IN
          /\ store' = Append(store, row)
          /\ nextId' = nextId + 1
          /\ resp' = [resp EXCEPT ![p] =
                Response(HTTP_201_CREATED, <<>>, serialize(row), NoErrors, TRUE)]
          /\ acked' = acked \cup {serialize(row)}
    /\ Goto(p, "RespondedCreated")
    /\ UNCHANGED <<req, issued, ackedAtIssue>>

\* the response has been sent; the worker is free for the next request
Finish(p) ==
    /\ pc[p] \in Terminal
    /\ pc' = [pc EXCEPT ![p] = "Idle"]
    /\ req' = [req EXCEPT ![p] = NoReq]
    /\ resp' = [resp EXCEPT ![p] = NoResp]
    /\ trace' = [trace EXCEPT ![p] = <<>>]
    /\ ackedAtIssue' = [ackedAtIssue EXCEPT ![p] = {}]
    /\ UNCHANGED <<store, nextId, issued, acked>>

\* the store is unavailable or rejects the statement: the exception
\* propagates out of the handler and nothing is written
StoreFault(p) ==
    /\ pc[p] \in {"Listing", "Persisting"}
    /\ \E n \in {nextId, nextId + 1} :
          nextId' = IF pc[p] = "Persisting" THEN n ELSE nextId
    /\ resp' = [resp EXCEPT ![p] =
          Response(HTTP_500_INTERNAL_SERVER_ERROR, <<>>, NoObj, NoErrors, FALSE)]
    /\ Goto(p, "Failed")
    /\ UNCHANGED <<store, req, issued, acked, ackedAtIssue>>

Next ==
    \E p \in Procs :
        \/ Receive(p)
        \/ Dispatch(p)
        \/ GetRespond(p)
        \/ PostValidate(p)
        \/ PostSave(p)
        \/ Finish(p)

Spec == Init /\ [][Next]_vars

NextFault ==
    \/ Next
    \/ \E p \in Procs : StoreFault(p)

SpecFault == Init /\ [][NextFault]_vars

\* ------------------------------------------------------ claim vocabulary
Range(f) == {f[i] : i \in DOMAIN f}

Ids(rows) == {rows[i][1] : i \in 1..Len(rows)}

IsPrefix(s, t) == Len(s) <= Len(t) /\ \A i \in 1..Len(s) : s[i] = t[i]

\* every writable field is present and is a string
ValidFieldSet(d) == \A f \in StudentFields : f \in DOMAIN d /\ d[f].type = "str"

MissingRequired(d) == \E f \in StudentFields : f \notin DOMAIN d

\* the request process p is serving in this step, and whether p takes the step
StepOf(p) == pc'[p] # pc[p]

ReqOf(p) == IF pc[p] = "Idle" THEN req'[p] ELSE req[p]

IsPost(p) == pc[p] # "Idle" /\ req[p].method = "POST"

IsGet(p) == pc[p] # "Idle" /\ req[p].method = "GET"

C2_InvalidPostRejected ==
    /\ [](\A p \in Procs :
            (IsPost(p) /\ MissingRequired(req[p].data) /\ pc[p] \in Terminal) =>
               /\ resp[p].status = 400
               /\ \A f \in StudentFields :
                     f \notin DOMAIN req[p].data =>
                        f \in DOMAIN resp[p].errors /\ resp[p].errors[f] # <<>>)
    /\ [][\A p \in Procs :
            (StepOf(p) /\ ReqOf(p).method = "POST" /\ MissingRequired(ReqOf(p).data))
               => store' = store]_vars

C2_Witness ==
    \E p \in Procs :
        /\ pc[p] = "RespondedBadRequest"
        /\ "name" \notin DOMAIN req[p].data
        /\ "name" \in DOMAIN resp[p].errors
        /\ Len(store) >= 1

\* C3: no two persisted records share an identifier, and every 201
\* response stands for a record of its own, also when the field sets of two
\* POSTs are identical.
C3_UniqueIds ==
    /\ \A i, j \in 1..Len(store) : i # j => store[i][1] # store[j][1]
    /\ Cardinality(acked) = Len(store)

C3_Witness ==
    \E i, j \in 1..Len(store) :
        i # j /\ store[i][2] = store[j][2] /\ store[i][1] # store[j][1]

C5_GetReadOnly ==
    [][\A p \in Procs :
         (StepOf(p) /\ ReqOf(p).method = "GET") =>
            store' = store /\ nextId' = nextId]_vars

C5_Witness ==
    \E p \in Procs :
        /\ IsGet(p) /\ pc[p] = "RespondedOK"
        /\ Len(resp[p].list) >= 1
        /\ Len(store) >= 1

\* C6: a persisted record is never removed or changed: the table only
\* grows, by one row per successful POST, and every record a 201 response
\* announced is still persisted with the same identifier and fields.
C6_RecordsImmutable ==
    /\ [](\A o \in acked : \E i \in 1..Len(store) :
             store[i][1] = o.id /\ store[i][2] = o.name)
    /\ [][/\ IsPrefix(store, store')
          /\ store' # store =>
                /\ Len(store') = Len(store) + 1
                /\ \E p \in Procs :
                      /\ pc[p] = "Persisting" /\ pc'[p] = "RespondedCreated"
                      /\ req[p].method = "POST"]_vars

C6_Witness ==
    /\ Len(store) >= 2
    /\ \E p \in Procs : IsGet(p) /\ pc[p] = "RespondedOK" /\ Len(resp[p].list) >= 1

\* C7: every GET and POST request walks its path of the per-request state
\* machine, ends in the terminal state of that path, and enters Persisting
\* only with data that passed validation.
PathOf(r) ==
    IF r.method = "GET" THEN <<"ReceivedRequest", "Listing", "RespondedOK">>
    ELSE IF ValidFieldSet(r.data)
    THEN <<"ReceivedRequest", "Validating", "Persisting", "RespondedCreated">>
    ELSE <<"ReceivedRequest", "Validating", "RespondedBadRequest">>

C8_ValidationTotal ==
    \A p \in Procs :
        IsPost(p) =>
           /\ (Len(trace[p]) >= 3) =>
                 /\ trace[p][2] = "Validating"
                 /\ trace[p][3] \in {"Persisting", "RespondedBadRequest"}
           /\ pc[p] = "Failed" => "Persisting" \in Range(trace[p])
           /\ (pc[p] \in Terminal /\ pc[p] # "Failed") =>
                 \/ /\ resp[p].status = 201
                    /\ resp[p].obj # NoObj
                    /\ resp[p].errors = NoErrors
                 \/ /\ resp[p].status = 400
                    /\ resp[p].obj = NoObj
                    /\ DOMAIN resp[p].errors # {}

C8_Witness ==
    \E p, q \in Procs :
        /\ IsPost(p) /\ pc[p] = "RespondedBadRequest"
        /\ "name" \in DOMAIN req[p].data /\ req[p].data["name"].type = "list"
        /\ IsPost(q) /\ pc[q] = "Failed"

\* C9: under every interleaving each create and each list acts as a unit:
\* a 201 adds exactly the one record it returns, under a fresh identifier;
\* a failed or rejected POST adds none; a listing holds only complete
\* persisted records; concurrent 201 responses carry distinct identifiers.
C9_Atomicity ==
    /\ [](/\ \A p \in Procs :
               pc[p] = "RespondedOK" =>
                  \A i \in 1..Len(resp[p].list) :
                     \E j \in 1..Len(store) :
                        store[j] = <<resp[p].list[i].id, resp[p].list[i].name>>
          /\ \A p, q \in Procs :
               (p # q /\ pc[p] = "RespondedCreated" /\ pc[q] = "RespondedCreated")
                  => resp[p].obj.id # resp[q].obj.id)
    /\ [][/\ \A p \in Procs :
               (StepOf(p) /\ pc'[p] = "RespondedCreated") =>
                  /\ resp'[p].status = 201
                  /\ resp'[p].obj.id \notin Ids(store)
                  /\ store' = Append(store, <<resp'[p].obj.id, resp'[p].obj.name>>)
          /\ \A p \in Procs :
               (StepOf(p) /\ pc'[p] # "RespondedCreated") => store' = store]_vars

C9_Witness ==
    \E p, q \in Procs :
        /\ p # q
        /\ pc[p] = "RespondedCreated" /\ pc[q] = "RespondedCreated"
        /\ resp[p].obj.name = resp[q].obj.name

\* C10 as stated: a request whose method is neither GET nor POST is
\* rejected by the api_view binding, never enters the handler and never
\* changes the store.
HandlerStates == {"Listing", "Validating", "Persisting", "RespondedOK",
                  "RespondedCreated", "RespondedBadRequest", "ReturnedNone"}

====
